---- MODULE Spec2Model ----
(***************************************************************************)
(* A model of the price store (src/src/lib.rs) and of the trimmed sequence *)
(* it is built on (src/src/optimized_vec.rs).                              *)
(*                                                                         *)
(* An OptimizedVec<T> is the record [first, inner]: `inner` is the backing *)
(* Vec<T> (a TLA+ sequence, so backing index k of the code is k + 1 here)  *)
(* and `first` the offset of the logical start.  A price level, the tuple  *)
(* (Price, Container<(Size, Meta)>), is the record [price, sizes]; a slot, *)
(* the tuple (Size, Meta), is the record [size, meta].  Store is a newtype *)
(* over StoreInner, so the variable `store` holds the store's `inner`.     *)
(***************************************************************************)
EXTENDS Integers, Sequences, FiniteSets, TLC

VARIABLES store, result, pre, last, ov, plain, vpre, vlast, frame

vars == <<store, result, pre, last, ov, plain, vpre, vlast, frame>>

storeVars == <<store, result, pre, last>>

vecVars == <<ov, plain, vpre, vlast>>

\* ------------------------------------------------------------------ bounds

\* prices are drawn from 1..MaxPrice
MaxPrice == 3

\* slot sizes given to insert / append are drawn from 1..MaxSize
MaxSize == 2

\* metadata tags are drawn from 0..MaxMeta
MaxMeta == 1

\* cap on the backing length of the store's level sequence
MaxLevels == 3

\* cap on the backing length of one level's size-list
MaxSlots == 2

\* cap on the number of slots held in backing storage by all levels together
MaxTotal == 3

\* the same two caps of the deeper, narrower specification SlackSpec, whose
\* calls carry one-slot lists of size 1: room for two removed levels in front
\* of two visible ones
SlackLevels == 4

SlackTotal == 4

\* requested sizes of split are drawn from 0..MaxReq
MaxReq == 3

\* cap on the backing length of the stand-alone trimmed sequence
MaxVecLen == 5

\* elements of the stand-alone trimmed sequence are drawn from 1..MaxVal
MaxVal == 2

\* the stores split is stepped through: at most StepLevels levels priced
\* 1..StepPrice, lists of 0..StepSlots slots of size 0..StepSize
StepLevels == 2

StepSlots == 2

StepPrice == 2

StepSize == 2

\* the stepped split is asked for 0..StepReq
StepReq == 3

\* ------------------------------------------------------------------ helpers

Min(a, b) == IF a <= b THEN a ELSE b

\* Vec::insert(idx, value) of the standard library, idx a 0-based backing index
Vec_insert(s, idx, value) ==
    SubSeq(s, 1, idx) \o <<value>> \o SubSeq(s, idx + 1, Len(s))

\* Vec::remove(idx) of the standard library, idx a 0-based backing index
Vec_remove(s, idx) ==
    SubSeq(s, 1, idx) \o SubSeq(s, idx + 2, Len(s))

\* ------------------------------------------------------------ OptimizedVec

OptimizedVec_new == [first |-> 0, inner |-> <<>>]

OptimizedVec_with_capacity == [first |-> 0, inner |-> <<>>]

OptimizedVec_from(s) == [first |-> 0, inner |-> s]

OptimizedVec_len(v) == Len(v.inner) - v.first

OptimizedVec_is_empty(v) == OptimizedVec_len(v) = 0

\* the slice inner[first..]: what iter, eq, fmt and binary search look at
iter(v) == SubSeq(v.inner, v.first + 1, Len(v.inner))

OptimizedVec_get(v, idx) == v.inner[idx + v.first + 1]

\* a write through get_mut / index_mut
OptimizedVec_get_mut(v, idx, value) ==
    [v EXCEPT !.inner = [@ EXCEPT ![idx + v.first + 1] = value]]

OptimizedVec_push(v, value) == [v EXCEPT !.inner = Append(@, value)]

\* a slip: the slack branch is taken without testing first != 0
OptimizedVec_insert_unguarded(v, idx, value) ==
    IF v.inner # <<>>
    THEN IF idx = 0
         THEN [first |-> v.first - 1,
               inner |-> [v.inner EXCEPT ![v.first] = value]]
         ELSE [v EXCEPT !.inner = Vec_insert(@, idx, value)]
    ELSE [v EXCEPT !.inner = Vec_insert(@, idx, value)]

\* a slip: the slack in front is never reused
OptimizedVec_insert_positional(v, idx, value) ==
    [v EXCEPT !.inner = Vec_insert(@, idx, value)]

\* the positional branch passes the LOGICAL idx to Vec::insert unchanged
OptimizedVec_insert(v, idx, value) ==
    IF v.inner # <<>>
    THEN IF idx = 0 /\ v.first # 0
         THEN [first |-> v.first - 1,
               inner |-> [v.inner EXCEPT ![v.first] = value]]
         ELSE [v EXCEPT !.inner = Vec_insert(@, idx, value)]
    ELSE [v EXCEPT !.inner = Vec_insert(@, idx, value)]

\* a slip: the assert looks at the backing array, not at the logical length
OptimizedVec_remove_ok_backing(v) == v.inner # <<>>

\* assert!(self.len() != 0): remove panics exactly when this is false
OptimizedVec_remove_ok(v) == OptimizedVec_len(v) # 0

\* a slip: the front element is erased from the backing array as well
OptimizedVec_remove_erasing(v, idx) ==
    [v EXCEPT !.inner = Vec_remove(@, v.first + idx)]

OptimizedVec_remove(v, idx) ==
    IF v.inner # <<>>
    THEN IF idx = 0
         THEN [v EXCEPT !.first = @ + 1]
         ELSE [v EXCEPT !.inner = Vec_remove(@, v.first + idx)]
    ELSE [v EXCEPT !.inner = Vec_remove(@, idx)]

IsSortedSeq(s) == \A i \in 1..(Len(s) - 1) : s[i] <= s[i + 1]

\* slice::binary_search_by_key over inner[first..], given the keys f(elem) of
\* that slice, as the set of results the standard library's contract allows:
\* on sorted keys Ok(i) for any i whose key matches, else Err(insertion
\* point); on unsorted keys the result is unspecified (Ok only ever names an
\* element whose key compared equal).
binary_search_by_key(keys, b) ==
    LET matches == {i \in 0..(Len(keys) - 1) : keys[i + 1] = b}
        found == {[ok |-> TRUE, idx |-> i] : i \in matches}
    IN  IF IsSortedSeq(keys)
        THEN IF matches # {}
             THEN found
             ELSE {[ok |-> FALSE,
                    idx |-> Cardinality({i \in 1..Len(keys) : keys[i] < b})]}
        ELSE found \cup {[ok |-> FALSE, idx |-> i] : i \in 0..Len(keys)}

\* ------------------------------------------------------------------- Store

Store_new == OptimizedVec_new

\* the keys |elem| elem.0 of the logical view
PricesOf(self) == [i \in 1..OptimizedVec_len(self) |-> iter(self)[i].price]

find_price_idx(self, price) == binary_search_by_key(PricesOf(self), price)

\* Store::insert, given the result r of find_price_idx(elem.price)
Store_insert(self, r, elem) == OptimizedVec_insert(self, r.idx, elem)

\* a slip: the index found in the logical view is used on the backing array
append_size_and_meta_to_price_backing(self, r, meta) ==
    [self EXCEPT !.inner[r.idx + 1].sizes = OptimizedVec_push(@, meta)]

\* Store::append_size_and_meta_to_price on the Ok(idx) path
append_size_and_meta_to_price(self, r, meta) ==
    LET level == OptimizedVec_get(self, r.idx)
    IN  OptimizedVec_get_mut(self, r.idx,
            [level EXCEPT !.sizes = OptimizedVec_push(@, meta)])

\* iter().take_while(|(price, _)| price <= max_price) : how many elements pass
RECURSIVE take_while(_, _)
take_while(s, max_price) ==
    IF s = <<>> \/ s[1].price > max_price
    THEN 0
    ELSE 1 + take_while(Tail(s), max_price)

\* a slip: the Err branch takes the whole store as the candidate range
upper_bound_whole(self, r, max_price) ==
    IF r.ok
    THEN take_while(SubSeq(iter(self), r.idx + 1, OptimizedVec_len(self)),
                    max_price)
    ELSE OptimizedVec_len(self)

\* self.inner[idx..] is read as the logical view from idx on, like every other
\* accessor of the container.  The Ok branch enumerates that slice from 0, so
\* `last + 1` is the number of levels from idx on that pass take_while, not an
\* index into the store; unwrap() cannot fail as the level at idx has
\* price = max_price
upper_bound(self, r, max_price) ==
    IF r.ok
    THEN take_while(SubSeq(iter(self), r.idx + 1, OptimizedVec_len(self)),
                    max_price)
    ELSE Min(r.idx, OptimizedVec_len(self))

\* .last() ... .unwrap() panics when take_while passes no element
upper_bound_ok(self, r, max_price) ==
    r.ok => take_while(SubSeq(iter(self), r.idx + 1, OptimizedVec_len(self)),
                       max_price) >= 1

\* a slip: the loops rely on min() alone and never test the budget
budget_left_untested(requested) == TRUE

\* `requested != 0` / `requested_size != 0`, the second conjunct of both loops
budget_left(requested) == requested # 0

\* a slip: the whole slot is reported as moved, whatever was taken from it
RECURSIVE split_sizes_loop_whole_slot(_, _, _, _)
split_sizes_loop_whole_slot(sizes, new_sizes, idx, requested) ==
    IF idx < OptimizedVec_len(sizes) /\ budget_left(requested)
    THEN LET slot == OptimizedVec_get(sizes, idx)
             new_size == Min(requested, slot.size)
             size == slot.size - new_size
             sizes1 == OptimizedVec_get_mut(sizes, idx,
                                            [slot EXCEPT !.size = size])
             new1 == OptimizedVec_push(new_sizes, slot)
         IN  IF size = 0
             THEN split_sizes_loop_whole_slot(OptimizedVec_remove(sizes1, idx),
                                              new1, idx, requested - new_size)
             ELSE split_sizes_loop_whole_slot(sizes1, new1, idx + 1,
                                              requested - new_size)
    ELSE [sizes |-> sizes, new_sizes |-> new_sizes, requested |-> requested]

\* a slip: the moved slot is put in front of new_sizes, not pushed at its end
RECURSIVE split_sizes_loop_newest_first(_, _, _, _)
split_sizes_loop_newest_first(sizes, new_sizes, idx, requested) ==
    IF idx < OptimizedVec_len(sizes) /\ budget_left(requested)
    THEN LET slot == OptimizedVec_get(sizes, idx)
             new_size == Min(requested, slot.size)
             size == slot.size - new_size
             sizes1 == OptimizedVec_get_mut(sizes, idx,
                                            [slot EXCEPT !.size = size])
             new1 == OptimizedVec_insert(new_sizes, 0,
                                         [size |-> new_size, meta |-> slot.meta])
         IN  IF size = 0
             THEN split_sizes_loop_newest_first(OptimizedVec_remove(sizes1, idx),
                                                new1, idx, requested - new_size)
             ELSE split_sizes_loop_newest_first(sizes1, new1, idx + 1,
                                                requested - new_size)
    ELSE [sizes |-> sizes, new_sizes |-> new_sizes, requested |-> requested]

\* a slip: the amount taken is the budget, without the cap at the slot's size
RECURSIVE split_sizes_loop_uncapped(_, _, _, _)
split_sizes_loop_uncapped(sizes, new_sizes, idx, requested) ==
    IF idx < OptimizedVec_len(sizes) /\ budget_left(requested)
    THEN LET slot == OptimizedVec_get(sizes, idx)
             new_size == requested
             size == slot.size - new_size
             sizes1 == OptimizedVec_get_mut(sizes, idx,
                                            [slot EXCEPT !.size = size])
             new1 == OptimizedVec_push(new_sizes,
                                       [size |-> new_size, meta |-> slot.meta])
         IN  IF size = 0
             THEN split_sizes_loop_uncapped(OptimizedVec_remove(sizes1, idx),
                                            new1, idx, requested - new_size)
             ELSE split_sizes_loop_uncapped(sizes1, new1, idx + 1,
                                            requested - new_size)
    ELSE [sizes |-> sizes, new_sizes |-> new_sizes, requested |-> requested]

\* the while loop of split_sizes over one size-list
RECURSIVE split_sizes_loop(_, _, _, _)
split_sizes_loop(sizes, new_sizes, idx, requested) ==
    IF idx < OptimizedVec_len(sizes) /\ budget_left(requested)
    THEN LET slot == OptimizedVec_get(sizes, idx)
             new_size == Min(requested, slot.size)
             size == slot.size - new_size
             sizes1 == OptimizedVec_get_mut(sizes, idx,
                                            [slot EXCEPT !.size = size])
             new1 == OptimizedVec_push(new_sizes,
                                       [size |-> new_size, meta |-> slot.meta])
         IN  IF size = 0
             THEN split_sizes_loop(OptimizedVec_remove(sizes1, idx), new1,
                                   idx, requested - new_size)
             ELSE split_sizes_loop(sizes1, new1, idx + 1,
                                   requested - new_size)
    ELSE [sizes |-> sizes, new_sizes |-> new_sizes, requested |-> requested]

\* a slip: a drained level is never reported, so split keeps it in the store
split_sizes_never_drained(self, price_idx, requested) ==
    LET level == OptimizedVec_get(self, price_idx)
        out == split_sizes_loop(level.sizes, OptimizedVec_with_capacity,
                                0, requested)
    IN  [self |-> OptimizedVec_get_mut(self, price_idx,
                                       [level EXCEPT !.sizes = out.sizes]),
         drained |-> FALSE,
         new_sizes |-> out.new_sizes,
         requested |-> out.requested]

\* Store::split_sizes: (drained, new_sizes, left_requested) and the mutated self
split_sizes(self, price_idx, requested) ==
    LET level == OptimizedVec_get(self, price_idx)
        out == split_sizes_loop(level.sizes, OptimizedVec_with_capacity,
                                0, requested)
    IN  [self |-> OptimizedVec_get_mut(self, price_idx,
                                       [level EXCEPT !.sizes = out.sizes]),
         drained |-> OptimizedVec_is_empty(out.sizes),
         new_sizes |-> out.new_sizes,
         requested |-> out.requested]

\* the condition of the main loop of split
split_continue(idx, bound, requested_size) ==
    idx < bound /\ budget_left(requested_size)

\* the main loop of split; `visited` records, per iteration, the level before
\* and after split_sizes and the list moved out of it
RECURSIVE split_loop(_, _, _, _, _, _)
split_loop(self, new, idx, bound, requested_size, visited) ==
    IF split_continue(idx, bound, requested_size)
    THEN LET price == OptimizedVec_get(self, idx).price
             out == split_sizes(self, idx, requested_size)
             new1 == IF ~OptimizedVec_is_empty(out.new_sizes)
                     THEN OptimizedVec_push(new,
                              [price |-> price, sizes |-> out.new_sizes])
                     ELSE new
             visited1 == Append(visited,
                                [before |-> OptimizedVec_get(self, idx),
                                 after |-> OptimizedVec_get(out.self, idx),
                                 new_sizes |-> out.new_sizes,
                                 idx |-> idx,
                                 requested |-> requested_size,
                                 left |-> out.requested])
         IN  IF out.drained
             THEN split_loop(OptimizedVec_remove(out.self, idx), new1, idx,
                             bound - 1, out.requested, visited1)
             ELSE split_loop(out.self, new1, idx + 1, bound, out.requested,
                             visited1)
    ELSE [self |-> self, new |-> new, visited |-> visited]

\* Store::split, given the result r of find_price_idx(max_price)
split(self, r, max_price, requested_size) ==
    split_loop(self, OptimizedVec_with_capacity, 0,
               upper_bound(self, r, max_price), requested_size, <<>>)

\* ----------------------------------------------------------- store actions

Prices == 1..MaxPrice

Sizes == 1..MaxSize

Metas == 0..MaxMeta

Slots == [size : Sizes, meta : Metas]

\* the size-lists a caller hands to insert: Container::from(vec![..]), non-empty
SizeLists == UNION {[1..n -> Slots] : n \in 1..MaxSlots}

\* slots held in the backing storage of the levels s[1..n], slack included
RECURSIVE BackingSlots(_, _)
BackingSlots(s, n) ==
    IF n = 0 THEN 0 ELSE Len(s[n].sizes.inner) + BackingSlots(s, n - 1)

WithinBounds(self, levels, total) ==
    /\ Len(self.inner) <= levels
    /\ \A i \in 1..Len(self.inner) : Len(self.inner[i].sizes.inner) <= MaxSlots
    /\ BackingSlots(self.inner, Len(self.inner)) <= total

NoSearch == [ok |-> FALSE, idx |-> 0]

\* the blank record of the last call
NoOp == [op |-> "none", price |-> 0, list |-> <<>>, req |-> 0, ok |-> TRUE,
         search |-> NoSearch, visited |-> <<>>]

\* the locals of split and of the split_sizes it is in, and where it stands:
\* "idle" (no call), "levels" (at the test of the main loop), "slots" (at the
\* test of the loop of split_sizes), "return", or "abort" after a panic
NoFrame == [pc |-> "idle", idx |-> 0, upper_bound |-> 0, requested_size |-> 0,
            new |-> [first |-> 0, inner |-> <<>>], price |-> 0,
            price_idx |-> 0, sidx |-> 0,
            new_sizes |-> [first |-> 0, inner |-> <<>>], requested |-> 0]

(***************************************************************************)
(* `store` is the store the calls mutate.  pre, last and result are        *)
(* history: a call either leaves them blank and the run goes on, or        *)
(* records the store before the call (pre), the call, its arguments and    *)
(* the search result it used (last) and the store it returned (result),    *)
(* and the run stops there.  Every call on every reachable store is        *)
(* recorded in some run, and a recorded state is where the contracts of    *)
(* the operations are read off.                                            *)
(***************************************************************************)
Init ==
    /\ store = Store_new
    /\ result = Store_new
    /\ pre = Store_new
    /\ last = NoOp
    /\ ov = OptimizedVec_new
    /\ plain = <<>>
    /\ vpre = OptimizedVec_new
    /\ vlast = [op |-> "none", idx |-> 0, value |-> 0, ok |-> TRUE]
    /\ frame = NoFrame

Record(rec, self, call, returned) ==
    /\ pre' = IF rec THEN self ELSE Store_new
    /\ last' = IF rec THEN call ELSE NoOp
    /\ result' = IF rec THEN returned ELSE Store_new

InsertCall(lists, levels, total) ==
    /\ last = NoOp
    /\ \E price \in Prices, list \in lists, rec \in BOOLEAN :
         \E r \in find_price_idx(store, price) :
           LET elem == [price |-> price, sizes |-> OptimizedVec_from(list)]
               self1 == Store_insert(store, r, elem)
           IN  /\ WithinBounds(self1, levels, total)
               /\ store' = self1
               /\ Record(rec, store,
                         [NoOp EXCEPT !.op = "insert", !.price = price,
                                      !.list = list, !.search = r],
                         Store_new)
               /\ UNCHANGED <<vecVars, frame>>

\* Err(_) => panic!: the call aborts before anything is written
AppendCall(slots, levels, total) ==
    /\ last = NoOp
    /\ \E price \in Prices, meta \in slots, rec \in BOOLEAN :
         \E r \in find_price_idx(store, price) :
           LET self1 == IF r.ok
                        THEN append_size_and_meta_to_price(store, r, meta)
                        ELSE store
           IN  /\ WithinBounds(self1, levels, total)
               /\ store' = self1
               /\ Record(rec, store,
                         [NoOp EXCEPT !.op = "append", !.price = price,
                                      !.list = <<meta>>, !.search = r,
                                      !.ok = r.ok],
                         Store_new)
               /\ UNCHANGED <<vecVars, frame>>

Split ==
    /\ last = NoOp
    /\ \E max_price \in 0..(MaxPrice + 1), requested_size \in 0..MaxReq,
          rec \in BOOLEAN :
         \E r \in find_price_idx(store, max_price) :
           LET out == split(store, r, max_price, requested_size)
           IN  /\ store' = out.self
               /\ Record(rec, store,
                         [NoOp EXCEPT !.op = "split", !.price = max_price,
                                      !.req = requested_size, !.search = r,
                                      !.ok = upper_bound_ok(store, r,
                                                            max_price),
                                      !.visited = out.visited],
                         out.new)
               /\ UNCHANGED <<vecVars, frame>>

Insert == InsertCall(SizeLists, MaxLevels, MaxTotal)

AppendSizeAndMeta == AppendCall(Slots, MaxLevels, MaxTotal)

Next == Insert \/ AppendSizeAndMeta \/ Split

Spec == Init /\ [][Next]_vars

\* the same calls with one-slot lists of size 1 and meta 0, four levels deep
SlackSlots == {[size |-> 1, meta |-> 0]}

SlackLists == {<<s>> : s \in SlackSlots}

SlackInsert == InsertCall(SlackLists, SlackLevels, SlackTotal)

SlackAppend == AppendCall(SlackSlots, SlackLevels, SlackTotal)

SlackNext == SlackInsert \/ SlackAppend \/ Split

SlackSpec == Init /\ [][SlackNext]_vars

\* ------------------------------------------- the trimmed sequence on its own

(***************************************************************************)
(* `ov` is an OptimizedVec of plain values and `plain` a Vec given the     *)
(* same logical calls.  vpre and vlast are history, recorded as for the    *)
(* store: the sequence before the call, and the call.                      *)
(***************************************************************************)
Vals == 1..MaxVal

VecSeqs == UNION {[1..n -> Vals] : n \in 0..MaxVecLen}

NoCall == [op |-> "none", idx |-> 0, value |-> 0, ok |-> TRUE]

\* OptimizedVec::new() or OptimizedVec::from(vec)
VecInit ==
    /\ store = Store_new
    /\ result = Store_new
    /\ pre = Store_new
    /\ last = NoOp
    /\ \E s \in VecSeqs : ov = OptimizedVec_from(s) /\ plain = s
    /\ vpre = OptimizedVec_new
    /\ vlast = NoCall
    /\ frame = NoFrame

VecRecord(rec, call) ==
    /\ vpre' = IF rec THEN ov ELSE OptimizedVec_new
    /\ vlast' = IF rec THEN call ELSE NoCall

VecPush ==
    /\ vlast = NoCall
    /\ Len(ov.inner) < MaxVecLen
    /\ \E value \in Vals, rec \in BOOLEAN :
         /\ ov' = OptimizedVec_push(ov, value)
         /\ plain' = Append(plain, value)
         /\ VecRecord(rec, [NoCall EXCEPT !.op = "push", !.value = value])
    /\ UNCHANGED <<storeVars, frame>>

\* insert(idx, value) with 0 <= idx <= len
VecInsert ==
    /\ vlast = NoCall
    /\ \E idx \in 0..OptimizedVec_len(ov), value \in Vals, rec \in BOOLEAN :
         /\ Len(OptimizedVec_insert(ov, idx, value).inner) <= MaxVecLen
         /\ ov' = OptimizedVec_insert(ov, idx, value)
         /\ plain' = Vec_insert(plain, idx, value)
         /\ VecRecord(rec, [NoCall EXCEPT !.op = "insert", !.idx = idx,
                                          !.value = value])
    /\ UNCHANGED <<storeVars, frame>>

\* remove(idx) with 0 <= idx < len, or remove(0) of a logically empty sequence,
\* where the assert aborts the call
VecRemove ==
    /\ vlast = NoCall
    /\ \E rec \in BOOLEAN :
         \E idx \in IF OptimizedVec_len(ov) > 0
                    THEN 0..(OptimizedVec_len(ov) - 1)
                    ELSE {0} :
           IF OptimizedVec_remove_ok(ov)
           THEN /\ ov' = OptimizedVec_remove(ov, idx)
                /\ plain' = Vec_remove(plain, idx)
                /\ VecRecord(rec, [NoCall EXCEPT !.op = "remove",
                                                 !.idx = idx])
           ELSE /\ UNCHANGED <<ov, plain>>
                /\ VecRecord(rec, [NoCall EXCEPT !.op = "remove",
                                                 !.idx = idx, !.ok = FALSE])
    /\ UNCHANGED <<storeVars, frame>>

VecNext == VecPush \/ VecInsert \/ VecRemove

VecSpec == VecInit /\ [][VecNext]_vars

\* -------------------------------------------------- split, step by step

(***************************************************************************)
(* The same split, one loop test or one loop body at a time, on stores     *)
(* built by Store::from: price-sorted, and a size-list may be empty or     *)
(* hold a slot of size zero.  `store` is self, mutated in place, `frame`   *)
(* the locals; pre and last record the call as before.  Every place where  *)
(* the code can panic (an index out of range, unwrap on None, the assert   *)
(* of remove, a subtraction below zero) is tested and leads to "abort".    *)
(***************************************************************************)
StepSlotValues == [size : 0..StepSize, meta : {0}]

StepLists == UNION {[1..n -> StepSlotValues] : n \in 0..StepSlots}

StepLevelValues ==
    [price : 1..StepPrice, sizes : {OptimizedVec_from(l) : l \in StepLists}]

\* Store::from(Container::from(vec![..])) of a price-sorted vector
StepStores ==
    {OptimizedVec_from(s) :
       s \in {q \in UNION {[1..n -> StepLevelValues] : n \in 0..StepLevels} :
                \A i \in 1..(Len(q) - 1) : q[i].price <= q[i + 1].price}}

StepInit ==
    /\ store \in StepStores
    /\ result = Store_new
    /\ pre = Store_new
    /\ last = NoOp
    /\ ov = OptimizedVec_new
    /\ plain = <<>>
    /\ vpre = OptimizedVec_new
    /\ vlast = NoCall
    /\ frame = NoFrame

\* self.inner[idx] and sizes[idx]: get panics on a backing index out of range
OptimizedVec_index_ok(v, idx) == v.first + idx < Len(v.inner)

\* one pass through the body of the loop of split_sizes; ok is FALSE when a
\* subtraction would go below zero or remove would find the list empty
split_sizes_body(sizes, new_sizes, idx, requested) ==
    LET slot == OptimizedVec_get(sizes, idx)
        new_size == Min(requested, slot.size)
        size == slot.size - new_size
        sizes1 == OptimizedVec_get_mut(sizes, idx, [slot EXCEPT !.size = size])
    IN  [sizes |-> IF size = 0 THEN OptimizedVec_remove(sizes1, idx) ELSE sizes1,
         new_sizes |-> OptimizedVec_push(new_sizes,
                                         [size |-> new_size, meta |-> slot.meta]),
         idx |-> IF size = 0 THEN idx ELSE idx + 1,
         requested |-> requested - new_size,
         ok |-> /\ size >= 0
                /\ requested - new_size >= 0
                /\ size = 0 => OptimizedVec_remove_ok(sizes1)]

\* a slip: a drained level is removed and upper_bound stays as it was
split_level_end_bound_kept(self, f) ==
    LET sizes == OptimizedVec_get(self, f.price_idx).sizes
        drained_sizes == OptimizedVec_is_empty(sizes)
        new1 == IF ~OptimizedVec_is_empty(f.new_sizes)
                THEN OptimizedVec_push(f.new, [price |-> f.price,
                                               sizes |-> f.new_sizes])
                ELSE f.new
    IN  [self |-> IF drained_sizes
                  THEN OptimizedVec_remove(self, f.idx)
                  ELSE self,
         frame |-> [f EXCEPT !.pc = "levels",
                             !.new = new1,
                             !.requested_size = f.requested,
                             !.idx = IF drained_sizes THEN @ ELSE @ + 1],
         ok |-> drained_sizes => OptimizedVec_remove_ok(self)]

\* the rest of the body of the main loop once split_sizes has returned
split_level_end(self, f) ==
    LET sizes == OptimizedVec_get(self, f.price_idx).sizes
        drained_sizes == OptimizedVec_is_empty(sizes)
        new1 == IF ~OptimizedVec_is_empty(f.new_sizes)
                THEN OptimizedVec_push(f.new, [price |-> f.price,
                                               sizes |-> f.new_sizes])
                ELSE f.new
    IN  [self |-> IF drained_sizes
                  THEN OptimizedVec_remove(self, f.idx)
                  ELSE self,
         frame |-> [f EXCEPT !.pc = "levels",
                             !.new = new1,
                             !.requested_size = f.requested,
                             !.upper_bound = IF drained_sizes THEN @ - 1 ELSE @,
                             !.idx = IF drained_sizes THEN @ ELSE @ + 1],
         ok |-> drained_sizes => OptimizedVec_remove_ok(self)]

Aborted == [NoFrame EXCEPT !.pc = "abort"]

\* the call and the computation of upper_bound
SplitCall ==
    /\ frame.pc = "idle"
    /\ \E max_price \in 0..(StepPrice + 1), requested_size \in 0..StepReq :
         \E r \in find_price_idx(store, max_price) :
           /\ pre' = store
           /\ last' = [NoOp EXCEPT !.op = "split", !.price = max_price,
                                   !.req = requested_size, !.search = r]
           /\ result' = Store_new
           /\ frame' = IF upper_bound_ok(store, r, max_price)
                       THEN [NoFrame EXCEPT
                               !.pc = "levels",
                               !.upper_bound = upper_bound(store, r, max_price),
                               !.requested_size = requested_size,
                               !.new = OptimizedVec_with_capacity]
                       ELSE Aborted
    /\ UNCHANGED <<store, vecVars>>

\* the test of the main loop; when it passes, the read of the price and the
\* entry of split_sizes, up to the test of its loop
LevelTest ==
    /\ frame.pc = "levels"
    /\ frame' = IF split_continue(frame.idx, frame.upper_bound,
                                  frame.requested_size)
                THEN IF OptimizedVec_index_ok(store, frame.idx)
                     THEN [frame EXCEPT
                             !.pc = "slots",
                             !.price = OptimizedVec_get(store, frame.idx).price,
                             !.price_idx = frame.idx,
                             !.sidx = 0,
                             !.new_sizes = OptimizedVec_with_capacity,
                             !.requested = frame.requested_size]
                     ELSE Aborted
                ELSE [frame EXCEPT !.pc = "return"]
    /\ UNCHANGED <<store, result, pre, last, vecVars>>

\* the loop of split_sizes goes on: the test passes and the body runs once
SlotStep ==
    /\ frame.pc = "slots"
    /\ LET level == OptimizedVec_get(store, frame.price_idx)
       IN  /\ frame.sidx < OptimizedVec_len(level.sizes)
           /\ budget_left(frame.requested)
           /\ IF OptimizedVec_index_ok(level.sizes, frame.sidx)
              THEN LET out == split_sizes_body(level.sizes, frame.new_sizes,
                                               frame.sidx, frame.requested)
                   IN  IF out.ok
                       THEN /\ store' = OptimizedVec_get_mut(store,
                                            frame.price_idx,
                                            [level EXCEPT !.sizes = out.sizes])
                            /\ frame' = [frame EXCEPT
                                           !.sidx = out.idx,
                                           !.new_sizes = out.new_sizes,
                                           !.requested = out.requested]
                       ELSE store' = store /\ frame' = Aborted
              ELSE store' = store /\ frame' = Aborted
    /\ UNCHANGED <<result, pre, last, vecVars>>

\* the loop of split_sizes ends: split_sizes returns and the main loop's body
\* is finished
SlotsExit ==
    /\ frame.pc = "slots"
    /\ LET level == OptimizedVec_get(store, frame.price_idx)
           out == split_level_end(store, frame)
       IN  /\ ~(/\ frame.sidx < OptimizedVec_len(level.sizes)
                /\ budget_left(frame.requested))
           /\ IF out.ok
              THEN store' = out.self /\ frame' = out.frame
              ELSE store' = store /\ frame' = Aborted
    /\ UNCHANGED <<result, pre, last, vecVars>>

\* Store::from(new)
SplitReturn ==
    /\ frame.pc = "return"
    /\ result' = frame.new
    /\ frame' = NoFrame
    /\ UNCHANGED <<store, pre, last, vecVars>>

SplitStep == LevelTest \/ SlotStep \/ SlotsExit \/ SplitReturn

StepNext == SplitCall \/ LevelTest \/ SlotStep \/ SlotsExit \/ SplitReturn

StepSpec == StepInit /\ [][StepNext]_vars

\* a call that has begun runs on: the steps of split are taken while enabled
StepFairSpec == StepSpec /\ WF_vars(SplitStep)

\* ------------------------------------------------------ reading the stores

\* the logical content of a level and of a store: what PartialEq compares
LevelView(level) == [price |-> level.price, slots |-> iter(level.sizes)]

StoreView(self) == [i \in 1..OptimizedVec_len(self) |-> LevelView(iter(self)[i])]

PriceSorted(self) == IsSortedSeq(PricesOf(self))

RECURSIVE SumSizes(_)
SumSizes(slots) ==
    IF slots = <<>> THEN 0 ELSE slots[1].size + SumSizes(Tail(slots))

RECURSIVE SumLevels(_)
SumLevels(levels) ==
    IF levels = <<>>
    THEN 0
    ELSE SumSizes(levels[1].slots) + SumLevels(Tail(levels))

TotalSize(self) == SumLevels(StoreView(self))

\* total size at the levels of the logical view with price <= max_price
SizeUpTo(self, max_price) ==
    LET Eligible(level) == level.price <= max_price
    IN  SumLevels(SelectSeq(StoreView(self), Eligible))

\* total size at the levels of the logical view with price < max_price
SizeBelow(self, max_price) ==
    LET Below(level) == level.price < max_price
    IN  SumLevels(SelectSeq(StoreView(self), Below))

HasPrice(self, price) ==
    \E i \in 1..OptimizedVec_len(self) : PricesOf(self)[i] = price

\* ------------------------------------------------------------------ claims

\* C1: after any sequence of insert and split calls from the empty store, the
\* prices of the store's logical view are non-decreasing.
C1_Sortedness == PriceSorted(store)

\* C2: a split on a price-sorted store that asks for more than the total size
\* below max_price takes volume from a level whose price is max_price, when
\* there is one.
C2_BoundaryInclusion ==
    (/\ last.op = "split"
     /\ PriceSorted(pre)
     /\ HasPrice(pre, last.price)
     /\ last.req > SizeBelow(pre, last.price))
    => HasPrice(result, last.price)

\* C3: the store returned by a split on a price-sorted store holds
\* min(requested_size, total size at prices <= max_price before the call).
C3_SplitTotal ==
    (last.op = "split" /\ PriceSorted(pre))
    => TotalSize(result) = Min(last.req, SizeUpTo(pre, last.price))

\* C4: a split conserves size: what self held before the call is what self
\* holds after it plus what the returned store holds, and the same holds level
\* by level for every level the scan visited.
C4_Conservation ==
    last.op = "split"
    => /\ TotalSize(pre) = TotalSize(store) + TotalSize(result)
       /\ \A k \in 1..Len(last.visited) :
            LET v == last.visited[k]
            IN  SumSizes(iter(v.before.sizes))
                  = SumSizes(iter(v.after.sizes)) + SumSizes(iter(v.new_sizes))

\* a split that visited two levels, drained the first and took part of a slot
\* of the second
C4_Witness ==
    /\ last.op = "split"
    /\ Len(last.visited) = 2
    /\ OptimizedVec_is_empty(last.visited[1].after.sizes)
    /\ ~OptimizedVec_is_empty(last.visited[2].after.sizes)
    /\ SumSizes(iter(last.visited[2].new_sizes)) = 1
    /\ TotalSize(store) > 0
    /\ TotalSize(result) > 1

Above(self, max_price) ==
    LET IsAbove(level) == level.price > max_price
    IN  SelectSeq(iter(self), IsAbove)

\* C5: a split on a price-sorted store leaves every level priced above
\* max_price as it was, in the same order, and returns no such level.
C5_AboveUntouched ==
    (last.op = "split" /\ PriceSorted(pre))
    => /\ Above(store, last.price) = Above(pre, last.price)
       /\ Above(result, last.price) = <<>>

\* a split of a sorted store that asked for more than the levels up to
\* max_price held, with a level above max_price in the store
C5_Witness ==
    /\ last.op = "split"
    /\ PriceSorted(pre)
    /\ Above(pre, last.price) # <<>>
    /\ SizeUpTo(pre, last.price) > 0
    /\ last.req > SizeUpTo(pre, last.price)

\* C6: split(p, 0) returns an empty store, leaves self as it was and does not
\* abort, whatever p and the store are.
C6_ZeroRequest ==
    (last.op = "split" /\ last.req = 0)
    => /\ last.ok
       /\ OptimizedVec_is_empty(result)
       /\ store = pre

\* split(p, 0) with p the price of the second of three levels, behind a removed
\* front level
C6_Witness ==
    /\ last.op = "split"
    /\ last.req = 0
    /\ pre.first > 0
    /\ OptimizedVec_len(pre) >= 2
    /\ last.search = [ok |-> TRUE, idx |-> 1]

NoEmptyLevel(self) ==
    \A i \in 1..OptimizedVec_len(self) :
      LET slots == StoreView(self)[i].slots
      IN  /\ slots # <<>>
          /\ \A k \in 1..Len(slots) : slots[k].size # 0

\* C7: in every store reachable from the empty one by insert, append and
\* split, and in every store a split returns, no level has an empty size-list
\* and no slot has size zero.
C7_NoEmptyLevel == NoEmptyLevel(store) /\ NoEmptyLevel(result)

\* C8: insert adds exactly the given pair: the logical view after the call is
\* the view before it with the pair put in at some position, so the length
\* grows by one, the pair is visible, every level seen before is still there
\* and no removed level is seen again.
C8_InsertExact ==
    last.op = "insert"
    => \E k \in 0..OptimizedVec_len(pre) :
         StoreView(store)
           = Vec_insert(StoreView(pre), k,
                        [price |-> last.price, slots |-> last.list])

\* C9: on a price-sorted store, append_size_and_meta_to_price(price, slot)
\* makes slot the last slot of one level with that price and changes nothing
\* else; with no such level it aborts and the store is as it was.
C9_Append ==
    (last.op = "append" /\ PriceSorted(pre))
    => IF HasPrice(pre, last.price)
       THEN /\ last.ok
            /\ \E i \in 1..OptimizedVec_len(pre) :
                 /\ StoreView(pre)[i].price = last.price
                 /\ StoreView(store)
                      = [StoreView(pre) EXCEPT
                           ![i].slots = Append(@, last.list[1])]
       ELSE ~last.ok /\ store = pre

\* an append that found its price in a sorted store with a removed level in
\* front, at a level that had a slot already
C9_Witness ==
    /\ last.op = "append"
    /\ PriceSorted(pre)
    /\ pre.first > 0
    /\ last.search = [ok |-> TRUE, idx |-> 0]
    /\ StoreView(pre)[1].slots # <<>>
    /\ Len(StoreView(store)[1].slots) = Len(StoreView(pre)[1].slots) + 1

\* C10: the logical view of the trimmed sequence is the plain list given the
\* same push, insert and remove calls.
C10_Refinement == iter(ov) = plain

\* C11: remove on a logically empty sequence aborts and leaves first and the
\* backing array as they were, whether the backing array is empty or every
\* element of it has been removed from the front.
C11_RemoveEmpty ==
    (vlast.op = "remove" /\ OptimizedVec_len(vpre) = 0)
    => ~vlast.ok /\ ov = vpre

\* remove(0) on a sequence whose backing array is non-empty and wholly slack
C11_Witness ==
    /\ vlast.op = "remove"
    /\ ~vlast.ok
    /\ vpre.inner # <<>>
    /\ vpre.first = Len(vpre.inner)
    /\ ov = vpre

\* C12: in every state reached by new/from, push, insert and non-aborting
\* remove, 0 <= first <= backing length, so len() does not underflow.
C12_FirstInRange ==
    /\ 0 <= ov.first
    /\ ov.first <= Len(ov.inner)
    /\ OptimizedVec_len(ov) >= 0

\* every element removed from the front: first has reached the backing length
C12_Witness ==
    /\ vlast.op = "remove"
    /\ vlast.ok
    /\ Len(ov.inner) >= 2
    /\ ov.first = Len(ov.inner)

\* C17: remove(0) on a non-empty sequence adds one to first and leaves the
\* backing array alone; remove(i) with 0 < i < len leaves first alone and
\* shrinks the backing array by one element; push appends at the end and
\* leaves first alone.
C17_FrontRemovalByOffset ==
    /\ (vlast.op = "remove" /\ vlast.ok /\ vlast.idx = 0)
       => ov.first = vpre.first + 1 /\ ov.inner = vpre.inner
    /\ (vlast.op = "remove" /\ vlast.ok /\ vlast.idx > 0)
       => ov.first = vpre.first /\ Len(ov.inner) = Len(vpre.inner) - 1
    /\ vlast.op = "push"
       => ov.first = vpre.first /\ ov.inner = Append(vpre.inner, vlast.value)

\* a second remove(0) in a row, with elements left behind it
C17_Witness ==
    /\ vlast.op = "remove"
    /\ vlast.ok
    /\ vlast.idx = 0
    /\ vpre.first > 0
    /\ OptimizedVec_len(ov) >= 2

\* C18: insert(0, v) with first > 0 takes one from first, leaves the backing
\* length alone and makes v the logical element 0; every other insert leaves
\* first alone and grows the backing array by one; len() grows by one in both.
C18_FrontInsertReusesSlack ==
    vlast.op = "insert"
    => /\ OptimizedVec_len(ov) = OptimizedVec_len(vpre) + 1
       /\ IF vlast.idx = 0 /\ vpre.first > 0
          THEN /\ ov.first = vpre.first - 1
               /\ Len(ov.inner) = Len(vpre.inner)
               /\ OptimizedVec_get(ov, 0) = vlast.value
          ELSE /\ ov.first = vpre.first
               /\ Len(ov.inner) = Len(vpre.inner) + 1

\* insert(0, v) on a logically empty sequence whose backing array is not empty
C18_Witness ==
    /\ vlast.op = "insert"
    /\ vlast.idx = 0
    /\ vpre.inner # <<>>
    /\ vpre.first = Len(vpre.inner)
    /\ iter(ov) = <<vlast.value>>

\* the visited levels out of which a split moved at least one slot
Contributing(visited) ==
    LET Gave(v) == ~OptimizedVec_is_empty(v.new_sizes)
    IN  SelectSeq(visited, Gave)

\* C13: a split on a price-sorted store visits the levels in stored order; the
\* returned store is price-sorted, holds one level per visited level that gave
\* a slot, in visiting order and with that level's price, and the slots of a
\* returned level are taken from the leading slots of the source level, in
\* order and with their metadata.
C13_ConsumptionOrder ==
    (last.op = "split" /\ PriceSorted(pre))
    => /\ PriceSorted(result)
       /\ \A k \in 1..Len(last.visited) :
            LevelView(last.visited[k].before) = StoreView(pre)[k]
       /\ LET gave == Contributing(last.visited)
          IN  StoreView(result)
                = [i \in 1..Len(gave) |->
                     [price |-> gave[i].before.price,
                      slots |-> iter(gave[i].new_sizes)]]
       /\ \A k \in 1..Len(last.visited) :
            LET from == iter(last.visited[k].before.sizes)
                to == iter(last.visited[k].new_sizes)
            IN  /\ Len(to) <= Len(from)
                /\ \A j \in 1..Len(to) :
                     /\ to[j].meta = from[j].meta
                     /\ to[j].size <= from[j].size

\* a split of a sorted store that took two slots with different metadata from
\* one level and a slot from the next level, at a higher price
C13_Witness ==
    /\ last.op = "split"
    /\ PriceSorted(pre)
    /\ OptimizedVec_len(result) = 2
    /\ StoreView(result)[1].price < StoreView(result)[2].price
    /\ Len(StoreView(result)[1].slots) = 2
    /\ StoreView(result)[1].slots[1].meta # StoreView(result)[1].slots[2].meta

\* C14: a split of a price-sorted store with no empty size-list and no
\* zero-size slot leaves self and the returned store price-sorted, with no
\* empty size-list and no zero-size slot.
C14_SplitKeepsStructure ==
    (last.op = "split" /\ PriceSorted(pre) /\ NoEmptyLevel(pre))
    => /\ PriceSorted(store)
       /\ NoEmptyLevel(store)
       /\ PriceSorted(result)
       /\ NoEmptyLevel(result)

\* a split that drained a level and a slot of the next level, and left levels
\* in self
C14_Witness ==
    /\ last.op = "split"
    /\ PriceSorted(pre)
    /\ NoEmptyLevel(pre)
    /\ Len(last.visited) = 2
    /\ OptimizedVec_is_empty(last.visited[1].after.sizes)
    /\ last.visited[2].after.sizes.first > last.visited[2].before.sizes.first
    /\ ~OptimizedVec_is_empty(last.visited[2].after.sizes)
    /\ OptimizedVec_len(store) = OptimizedVec_len(pre) - 1

NoZeroSlot(self) ==
    \A i \in 1..OptimizedVec_len(self) :
      \A k \in 1..Len(StoreView(self)[i].slots) :
        StoreView(self)[i].slots[k].size # 0

\* slots `to` are slots `from` without the first m, the first one left possibly
\* holding less (and more than nothing)
SlotsConsumed(from, to, m) ==
    /\ Len(to) = Len(from) - m
    /\ \A k \in 1..Len(to) :
         /\ to[k].meta = from[m + k].meta
         /\ IF k = 1
            THEN 0 < to[k].size /\ to[k].size <= from[m + k].size
            ELSE to[k].size = from[m + k].size

\* view `after` is view `before` without its first j levels; touched tells
\* whether the first level left has lost slots or size
LevelsConsumed(before, after, j, touched) ==
    /\ Len(after) = Len(before) - j
    /\ \A k \in 2..Len(after) : after[k] = before[j + k]
    /\ IF touched
       THEN /\ j < Len(before)
            /\ after[1].price = before[j + 1].price
            /\ after[1] # before[j + 1]
            /\ \E m \in 0..(Len(before[j + 1].slots) - 1) :
                 SlotsConsumed(before[j + 1].slots, after[1].slots, m)
       ELSE j < Len(before) => after[1] = before[j + 1]

\* the first j levels of the view are the cheapest: none of them costs more
\* than a level behind them
CheapestFirst(view, j) ==
    \A a \in 1..j : \A b \in (j + 1)..Len(view) : view[a].price <= view[b].price

\* what a split does to self, read in stored order
StoredPrefixConsumed ==
    (last.op = "split" /\ NoZeroSlot(pre))
    => /\ \E j \in 0..OptimizedVec_len(pre) : \E touched \in BOOLEAN :
            LevelsConsumed(StoreView(pre), StoreView(store), j, touched)
       /\ \A k \in 1..Len(last.visited) : last.visited[k].idx = 0

\* C15: a split of a store with no zero-size slot deletes from self a prefix of
\* the (level, slot) sequence in ascending price then slot order, takes size
\* from at most the first slot left behind that prefix, leaves every later
\* slot as it was, and removes levels at index 0 only.
C15_PrefixConsumption ==
    (last.op = "split" /\ NoZeroSlot(pre))
    => /\ \E j \in 0..OptimizedVec_len(pre) : \E touched \in BOOLEAN :
            /\ LevelsConsumed(StoreView(pre), StoreView(store), j, touched)
            /\ CheapestFirst(StoreView(pre), IF touched THEN j + 1 ELSE j)
       /\ \A k \in 1..Len(last.visited) : last.visited[k].idx = 0

\* C16: the amount a split takes from a slot is the smaller of the budget left
\* and the slot's size, so no slot size and no budget goes below zero, and the
\* returned store holds no more than requested_size.
C16_CappedAmount ==
    last.op = "split"
    => /\ TotalSize(result) <= last.req
       /\ \A i \in 1..OptimizedVec_len(store) :
            \A k \in 1..Len(StoreView(store)[i].slots) :
              StoreView(store)[i].slots[k].size >= 0
       /\ \A k \in 1..Len(last.visited) :
            LET v == last.visited[k]
                from == iter(v.before.sizes)
                to == iter(v.new_sizes)
                budget(j) == v.requested - SumSizes(SubSeq(to, 1, j - 1))
            IN  /\ v.left >= 0
                /\ v.left = v.requested - SumSizes(to)
                /\ \A j \in 1..Len(to) :
                     to[j].size = IF budget(j) <= from[j].size
                                  THEN budget(j)
                                  ELSE from[j].size
                /\ \A j \in 1..Len(iter(v.after.sizes)) :
                     iter(v.after.sizes)[j].size >= 0

\* a split whose budget ran out inside a slot larger than what was left of it,
\* after a smaller slot had been taken whole
C16_Witness ==
    /\ last.op = "split"
    /\ Len(last.visited) = 2
    /\ last.visited[1].requested > SumSizes(iter(last.visited[1].before.sizes))
    /\ last.visited[2].left = 0
    /\ last.visited[2].requested
         < iter(last.visited[2].before.sizes)[1].size
    /\ TotalSize(result) = last.req

\* an iteration of the main loop removes a level and shrinks the range, or
\* moves the index on
LevelProgress ==
    (frame.pc = "slots" /\ frame'.pc = "levels")
    => \/ /\ OptimizedVec_len(store') = OptimizedVec_len(store) - 1
          /\ frame'.upper_bound = frame.upper_bound - 1
          /\ frame'.idx = frame.idx
       \/ /\ OptimizedVec_len(store') = OptimizedVec_len(store)
          /\ frame'.upper_bound = frame.upper_bound
          /\ frame'.idx = frame.idx + 1

\* an iteration of the loop of split_sizes removes a slot or moves the index on
SlotProgress ==
    (frame.pc = "slots" /\ frame'.pc = "slots")
    => LET before == OptimizedVec_get(store, frame.price_idx).sizes
           after == OptimizedVec_get(store', frame.price_idx).sizes
       IN  \/ /\ OptimizedVec_len(after) = OptimizedVec_len(before) - 1
              /\ frame'.sidx = frame.sidx
           \/ /\ OptimizedVec_len(after) = OptimizedVec_len(before)
              /\ frame'.sidx = frame.sidx + 1

\* C19: on a price-sorted store, empty size-lists and zero-size slots allowed,
\* split never aborts, each iteration of the level loop removes a level or
\* advances the index, each iteration of the slot loop removes a slot or
\* advances the index, and a call that has begun returns.
C19_Terminates ==
    /\ [](frame.pc # "abort")
    /\ [][LevelProgress /\ SlotProgress]_vars
    /\ (frame.pc # "idle") ~> (frame.pc = "idle")

\* a split has returned that went through a level with an empty size-list and
\* then took from a level whose first slot had size zero
C19_Witness ==
    /\ frame.pc = "idle"
    /\ last.op = "split"
    /\ last.req > 0
    /\ OptimizedVec_len(pre) = 2
    /\ StoreView(pre)[1].slots = <<>>
    /\ Len(StoreView(pre)[2].slots) = 2
    /\ StoreView(pre)[2].slots[1].size = 0
    /\ OptimizedVec_len(store) = 1
    /\ TotalSize(result) = last.req

\* the stepped split returns what the one-step split returns
StepsAgree ==
    (frame.pc = "idle" /\ last.op = "split")
    => LET out == split(pre, last.search, last.price, last.req)
       IN  store = out.self /\ result = out.new

====
